---- MODULE Spec2Model ----
(***************************************************************************)
(* Model of client/nigori-client.py: the KeyDeriver envelope (padding,     *)
(* CBC encryption, encrypt-then-MAC, base64url wire form), the zero-IV     *)
(* permutation used for lookup keys, and the authentication challenge.     *)
(* Byte strings are sequences over 0..255; base64url text is a sequence    *)
(* of alphabet indices 0..63 with 64 standing for the pad character '='.   *)
(* The PyCrypto primitives (SHA256, HMAC, AES) are external: they are      *)
(* stood in for by small concrete functions with the shape the client      *)
(* relies on (digest sizes, a keyed block bijection, a keyed digest).      *)
(***************************************************************************)
EXTENDS Integers, Sequences, FiniteSets, TLC

\* ------------------------------------------------------------------ bytes

BlockSize == 16

DigestSize == 32

MacSize == 16

MinEnvelope == 32

Byte == 0..255

Min(a, b) == IF a < b THEN a ELSE b

\* s[a..b] with Python's slice clamping (1-based, inclusive, empty if a > b)
Slice(s, a, b) == IF a > b THEN << >> ELSE SubSeq(s, a, b)

\* the function f on 1..n as a sequence
Bytes(f) == f \o << >>

Fill(n, b) == Bytes([i \in 1..n |-> b])

RECURSIVE XorBits(_, _, _)
XorBits(a, b, n) ==
  IF n = 0 THEN 0
  ELSE ((a + b) % 2) + 2 * XorBits(a \div 2, b \div 2, n - 1)

NibbleXor == [a \in 0..15 |-> [b \in 0..15 |-> XorBits(a, b, 4)]]

Xor(a, b) == 16 * NibbleXor[a \div 16][b \div 16] + NibbleXor[a % 16][b % 16]

XorBlock(x, y) == Bytes([i \in 1..BlockSize |-> Xor(x[i], y[i])])

\* the first n bytes of s folded into a running value
RECURSIVE Roll(_, _, _)
Roll(s, n, seed) ==
  IF n = 0 THEN seed ELSE (Roll(s, n - 1, seed) * 257 + s[n] + 1) % 65521

\* byte i of a digest drawn from the running value h: the odd bytes carry
\* the low half of h and the even bytes the high half
Spread(h, i) ==
  ((IF i % 2 = 1 THEN h % 256 ELSE h \div 256) * (2 * i + 1) + 7 * i) % 256

\* ------------------------------------------------- external primitives

\* SHA256.new(x).digest(): a 32-byte digest of x
SHA256(x) ==
  LET h == Roll(x, Len(x), 99)
  IN  Bytes([i \in 1..DigestSize |-> Spread(h, i)])

\* HMAC.new(key, msg).digest(): PyCrypto's default digest is MD5, 16 bytes.
\* The digest changes whenever one byte of msg changes.
HMAC(key, msg) ==
  LET h == Roll(msg, Len(msg), 5 * Len(msg))
  IN  Bytes([i \in 1..MacSize |->
               (key[i] + 3 * key[i + MacSize] + Spread(h, i)) % 256])

\* AES block encryption under a 32-byte key: a keyed bijection on blocks
\* (rotate the block by one byte, xor the first key half, add the second)
AESBlockEnc(key, b) ==
  Bytes([i \in 1..BlockSize |->
           (Xor(b[(i % BlockSize) + 1], key[i]) + key[i + BlockSize]) % 256])

AESBlockDec(key, c) ==
  Bytes([i \in 1..BlockSize |->
           LET j == ((i + BlockSize - 2) % BlockSize) + 1
           IN  Xor((c[j] + 256 - key[j + BlockSize]) % 256, key[j])])

\* AES.new(key, MODE_CBC, iv).encrypt(data), Len(data) a multiple of 16
RECURSIVE CBCEncrypt(_, _, _)
CBCEncrypt(key, prev, data) ==
  IF Len(data) = 0 THEN << >>
  ELSE LET c == AESBlockEnc(key, XorBlock(SubSeq(data, 1, BlockSize), prev))
       IN  c \o CBCEncrypt(key, c, SubSeq(data, BlockSize + 1, Len(data)))

\* AES.new(key, MODE_CBC, iv).decrypt(data), Len(data) a multiple of 16
RECURSIVE CBCDecrypt(_, _, _)
CBCDecrypt(key, prev, data) ==
  IF Len(data) = 0 THEN << >>
  ELSE LET c == SubSeq(data, 1, BlockSize)
       IN  XorBlock(AESBlockDec(key, c), prev)
             \o CBCDecrypt(key, c, SubSeq(data, BlockSize + 1, Len(data)))

\* base64: the pad symbol
Pad == 64

\* urlsafe_b64encode: three bytes to four symbols, '=' padded; symbol k of
\* the output is read off the byte group it falls in
b64enc(s) ==
  LET n == Len(s)
      at(j) == IF j <= n THEN s[j] ELSE 0
  IN  Bytes([k \in 1..(4 * ((n + 2) \div 3)) |->
        LET q == 3 * ((k - 1) \div 4)
            r == (k - 1) % 4
        IN  IF r = 0 THEN at(q + 1) \div 4
            ELSE IF r = 1 THEN (at(q + 1) % 4) * 16 + at(q + 2) \div 16
            ELSE IF r = 2 THEN
              IF q + 2 > n THEN Pad ELSE (at(q + 2) % 16) * 4 + at(q + 3) \div 64
            ELSE IF q + 3 > n THEN Pad ELSE at(q + 3) % 64])

Pow2(n) == IF n = 0 THEN 1 ELSE IF n = 2 THEN 4 ELSE IF n = 4 THEN 16 ELSE 64

\* One turn of the scanning loop of binascii.a2b_base64 on symbol i of s: a
\* pad is skipped unless two symbols of the quad are read (and, at exactly
\* two, the next symbol is a pad too), in which case it ends the input with
\* the left-over bits dropped; any other symbol shifts six bits in and emits
\* a byte once eight are there
a2bStep(st, s, i) ==
  IF st.done \/ i > Len(s) THEN st
  ELSE IF s[i] = Pad THEN
    IF st.quad_pos < 2
         \/ (st.quad_pos = 2 /\ ~(i < Len(s) /\ s[i + 1] = Pad))
    THEN st
    ELSE [st EXCEPT !.done = TRUE, !.leftbits = 0]
  ELSE
    LET acc == st.leftchar * 64 + s[i]
        bits == st.leftbits + 6
    IN  IF bits >= 8
        THEN [quad_pos |-> (st.quad_pos + 1) % 4,
              leftchar |-> acc % Pow2(bits - 8),
              leftbits |-> bits - 8,
              out |-> Append(st.out, (acc \div Pow2(bits - 8)) % 256),
              done |-> FALSE]
        ELSE [st EXCEPT !.quad_pos = (st.quad_pos + 1) % 4,
                        !.leftchar = acc, !.leftbits = bits]

a2bStep4(st, s, i) ==
  a2bStep(a2bStep(a2bStep(a2bStep(st, s, i), s, i + 1), s, i + 2), s, i + 3)

RECURSIVE a2bScan(_, _, _)
a2bScan(st, s, i) ==
  IF st.done \/ i > Len(s) THEN st
  ELSE a2bScan(a2bStep4(a2bStep4(st, s, i), s, i + 4), s, i + 8)

\* urlsafe_b64decode: bits left over at the end of the scan are an error
\* ("Incorrect padding", re-raised as TypeError)
b64dec(s) ==
  LET st == a2bScan([quad_pos |-> 0, leftchar |-> 0, leftbits |-> 0,
                     out |-> << >>, done |-> FALSE], s, 1)
  IN  [ok |-> st.leftbits = 0, bytes |-> st.out]

\* ----------------------------------------------------------- KeyDeriver

\* KeyDeriver.__init__: the three chained digests
KeyDeriver(password) ==
  LET crypt == SHA256(password)
      mac == SHA256(crypt)
  IN  [crypt |-> crypt, mac |-> mac, authenticate |-> SHA256(mac)]

\* the padding loop of encryptWithIV: pad bytes, each of value pad
\* the padding with no block added to a plaintext that fills its last block
AddPadding_NoFullBlock(plain) ==
  LET pad == (BlockSize - (Len(plain) % BlockSize)) % BlockSize
  IN  plain \o Fill(pad, pad)

AddPadding(plain) ==
  LET pad == BlockSize - (Len(plain) % BlockSize)
  IN  plain \o Fill(pad, pad)

ZeroIV == Fill(BlockSize, 0)

encryptWithIV(self, plain, iv) ==
  LET crypted == CBCEncrypt(self.crypt, iv, AddPadding(plain))
  IN  crypted \o HMAC(self.mac, crypted)

\* encrypt sending the IV it drew and encrypting under the zero block
encrypt_IVUnused(self, plain, iv) == b64enc(iv \o encryptWithIV(self, plain, ZeroIV))

\* encrypt, with iv the 16 bytes pool.get_bytes(16) returned
encrypt(self, plain, iv) == b64enc(iv \o encryptWithIV(self, plain, iv))

\* permute with the IV sent in front, as encrypt does
permute_WithIV(self, plain) == b64enc(ZeroIV \o encryptWithIV(self, plain, ZeroIV))

\* permute of what follows the first four bytes
permute_SkipsType(self, plain) ==
  b64enc(encryptWithIV(self, Slice(plain, 5, Len(plain)), ZeroIV))

permute(self, plain) == b64enc(encryptWithIV(self, plain, ZeroIV))

\* the failures decrypt can end with: the three the code raises itself ...
FormatError == "ValueError: value too short"

AuthenticationError == "ValueError: mac doesn't match"

PaddingError == "ValueError: padding error"

\* ... and the ones raised underneath it: by urlsafe_b64decode, by
\* crypter.decrypt on a length that is no multiple of 16, by indexing plain
Base64Error == "TypeError: Incorrect padding"

CipherLengthError == "ValueError: Input strings must be a multiple of 16 in length"

IndexError == "IndexError: string index out of range"

\* decrypt, lines 58-63: c is the last byte; the loop compares plain[-1],
\* ..., plain[-(c-1)] with c (indexing past the front raises IndexError);
\* then plain[:-c], which is empty for c = 0 and for c >= len(plain)
StripPadding(plain) ==
  LET n == Len(plain)
      c == plain[n]
  IN  IF n = 0 THEN [error |-> IndexError, plain |-> << >>]
      ELSE IF \E k \in 1..Min(c - 1, n) : plain[n + 1 - k] # c
        THEN [error |-> PaddingError, plain |-> << >>]
      ELSE IF c - 1 > n THEN [error |-> IndexError, plain |-> << >>]
      ELSE [error |-> "",
            plain |-> IF c = 0 THEN << >> ELSE Slice(plain, 1, n - c)]

\* ------------------------------------------------------------------ state

VARIABLES
  password,   \* the password the KeyDeriver is constructed with
  self,       \* the KeyDeriver's fields: crypt, mac, authenticate
  plain,      \* the value the caller protects
  encs,       \* what the calls of encrypt(plain) drew and returned, in order
  perm,       \* what permute(plain) returned, << >> before the call
  dec,        \* the frame of the decrypt call in progress or last ended
  clock,      \* int(time.time()): the clock's second
  registered, \* server: the public key registered for each user
  seen,       \* server: the t values it has accepted
  store,      \* server: the values stored under each lookup key, in order
  auths,      \* what each run of authenticate sent and was answered
  sent,       \* the lookup keys add and getList have sent, with their tuples
  out         \* what the last add or getList printed or raised

cipherVars == << plain, encs, perm, dec >>

netVars == << clock, registered, seen, store, auths, sent, out >>

vars == << password, self, plain, encs, perm, dec,
           clock, registered, seen, store, auths, sent, out >>

MaxPlainLen == 17

MaxEncrypts == 2

Passwords == { << 112 >>, << 115, 51 >> }

\* plaintexts of every length up to MaxPlainLen: a run of one byte and a last
\* byte, among them bytes that read as padding (1, 2, 16) and 0
Patterns == { << 65, 65 >>, << 65, 1 >>, << 16, 16 >>, << 0, 0 >>, << 2, 2 >> }

Plaintexts ==
  { Bytes([i \in 1..n |-> IF i = n THEN pt[2] ELSE pt[1]]) :
      n \in 0..MaxPlainLen, pt \in Patterns }

\* the values pool.get_bytes(16) is taken to return
IVs == { ZeroIV, Bytes([i \in 1..BlockSize |-> (17 * i + 200) % 256]) }

NoSrc == [kind |-> "none", k |-> 0, pos |-> 0, bit |-> 0]

Users == {"alice"}

NoKey == << >>

\* nothing registered, accepted, stored or sent yet
NetIdle ==
  /\ clock = 0
  /\ registered = [u \in Users |-> NoKey]
  /\ seen = {}
  /\ store = << >>
  /\ auths = << >>
  /\ sent = {}
  /\ out = << >>

IdleFrame ==
  [pc |-> "idle", arg |-> << >>, src |-> NoSrc, steps |-> << >>,
   crypted |-> << >>, mac |-> << >>, iv |-> << >>, plain |-> << >>,
   result |-> << >>, error |-> ""]

\* ------------------------------------------------- KeyDeriver.decrypt

\* decrypt is entered with arg; src remembers where arg came from
Enter(arg, src) == [IdleFrame EXCEPT !.pc = "l46", !.arg = arg, !.src = src]

Raise(f, err) == [f EXCEPT !.pc = "raised", !.error = err]

\* lines 46-49: decode, then the length check
Decode(f) ==
  LET d == b64dec(f.arg)
      g == [f EXCEPT !.crypted = d.bytes, !.steps = Append(@, "length")]
  IN  IF f.pc # "l46" THEN f
      ELSE IF ~d.ok THEN Raise(f, Base64Error)
      ELSE IF Len(d.bytes) < MinEnvelope THEN Raise(g, FormatError)
      ELSE [g EXCEPT !.pc = "l50"]

\* the comparison of the first half of the MAC only
Verify_HalfMac(me, f) ==
  LET l == Len(f.crypted)
      g == [f EXCEPT !.mac = Slice(f.crypted, l - MacSize + 1, l),
                     !.iv = Slice(f.crypted, 1, BlockSize),
                     !.crypted = Slice(f.crypted, BlockSize + 1, l - MacSize),
                     !.steps = Append(@, "hmac")]
  IN  IF f.pc # "l50" THEN f
      ELSE IF Slice(g.mac, 1, 8) # Slice(HMAC(me.mac, g.crypted), 1, 8)
        THEN Raise(g, AuthenticationError)
      ELSE [g EXCEPT !.pc = "l56"]

\* the MAC compared and the mismatch not raised
Verify_NoRaise(me, f) ==
  LET l == Len(f.crypted)
      g == [f EXCEPT !.mac = Slice(f.crypted, l - MacSize + 1, l),
                     !.iv = Slice(f.crypted, 1, BlockSize),
                     !.crypted = Slice(f.crypted, BlockSize + 1, l - MacSize),
                     !.steps = Append(@, "hmac")]
  IN  IF f.pc # "l50" THEN f
      ELSE [g EXCEPT !.pc = "l56"]

\* lines 50-55: split off mac and iv, recompute the MAC and compare
Verify(me, f) ==
  LET l == Len(f.crypted)
      g == [f EXCEPT !.mac = Slice(f.crypted, l - MacSize + 1, l),
                     !.iv = Slice(f.crypted, 1, BlockSize),
                     !.crypted = Slice(f.crypted, BlockSize + 1, l - MacSize),
                     !.steps = Append(@, "hmac")]
  IN  IF f.pc # "l50" THEN f
      ELSE IF g.mac # HMAC(me.mac, g.crypted) THEN Raise(g, AuthenticationError)
      ELSE [g EXCEPT !.pc = "l56"]

\* lines 56-57: the CBC decryption
Cipher(me, f) ==
  LET g == [f EXCEPT !.steps = Append(@, "aes")]
  IN  IF f.pc # "l56" THEN f
      ELSE IF Len(f.crypted) % BlockSize # 0 THEN Raise(g, CipherLengthError)
      ELSE [g EXCEPT !.pc = "l58",
                     !.plain = CBCDecrypt(me.crypt, f.iv, f.crypted)]

\* lines 58-63: the padding check and the return
Unpad(f) ==
  LET g == [f EXCEPT !.steps = Append(@, "padding")]
      r == StripPadding(f.plain)
  IN  IF f.pc # "l58" THEN f
      ELSE IF r.error # "" THEN Raise(g, r.error)
      ELSE [g EXCEPT !.pc = "returned", !.result = r.plain]

\* one whole call of decrypt
decrypt(me, arg, src) == Unpad(Cipher(me, Verify(me, Decode(Enter(arg, src)))))

Ended(f) == f.pc \in {"returned", "raised"}

\* ---------------------------------------------------------------- actions

Init ==
  /\ password \in Passwords
  /\ self = KeyDeriver(password)
  /\ plain \in Plaintexts
  /\ encs = << >>
  /\ perm = << >>
  /\ dec = IdleFrame
  /\ NetIdle

\* a session with a password and no value to protect
InitSession ==
  /\ password \in Passwords
  /\ self = KeyDeriver(password)
  /\ plain = << >>
  /\ encs = << >>
  /\ perm = << >>
  /\ dec = IdleFrame
  /\ NetIdle

\* a call of encrypt(plain): the pool returns iv (the client is sequential:
\* no call starts while another is in progress)
Encrypt ==
  /\ dec.pc = "idle"
  /\ Len(encs) < MaxEncrypts
  /\ \E iv \in IVs :
       encs' = Append(encs, [iv |-> iv, out |-> encrypt(self, plain, iv)])
  /\ UNCHANGED << password, self, plain, perm, dec, netVars >>

\* a call of permute(plain)
Permute ==
  /\ dec.pc = "idle"
  /\ perm = << >>
  /\ perm' = permute(self, plain)
  /\ UNCHANGED << password, self, plain, encs, dec, netVars >>

\* decrypt is called on what an earlier encrypt call returned, and runs
\* line by line
DecryptOwn ==
  /\ dec.pc = "idle"
  /\ \E k \in 1..Len(encs) :
       dec' = Enter(encs[k].out, [NoSrc EXCEPT !.kind = "enc", !.k = k])
  /\ UNCHANGED << password, self, plain, encs, perm, netVars >>

DecryptDecode ==
  /\ dec.pc = "l46"
  /\ dec' = Decode(dec)
  /\ UNCHANGED << password, self, plain, encs, perm, netVars >>

DecryptVerify ==
  /\ dec.pc = "l50"
  /\ dec' = Verify(self, dec)
  /\ UNCHANGED << password, self, plain, encs, perm, netVars >>

DecryptCipher ==
  /\ dec.pc = "l56"
  /\ dec' = Cipher(self, dec)
  /\ UNCHANGED << password, self, plain, encs, perm, netVars >>

DecryptUnpad ==
  /\ dec.pc = "l58"
  /\ dec' = Unpad(dec)
  /\ UNCHANGED << password, self, plain, encs, perm, netVars >>

\* the call has ended and its frame is gone
DecryptExit ==
  /\ Ended(dec)
  /\ dec' = IdleFrame
  /\ UNCHANGED << password, self, plain, encs, perm, netVars >>

DecryptSteps ==
  DecryptDecode \/ DecryptVerify \/ DecryptCipher \/ DecryptUnpad \/ DecryptExit

Next == Encrypt \/ DecryptOwn \/ DecryptSteps

Spec == Init /\ [][Next]_vars

\* the calls that produce wire text: encrypt and permute
NextWire == Encrypt \/ Permute

SpecWire == Init /\ [][NextWire]_vars

\* ------------------------------------------------ tampered envelopes

\* byte b with bit number bit (0 the lowest) flipped
Pow(n) == IF n = 0 THEN 1 ELSE IF n = 1 THEN 2 ELSE IF n = 2 THEN 4
          ELSE IF n = 3 THEN 8 ELSE IF n = 4 THEN 16 ELSE IF n = 5 THEN 32
          ELSE IF n = 6 THEN 64 ELSE 128

FlipBit(b, bit) ==
  IF (b \div Pow(bit)) % 2 = 1 THEN b - Pow(bit) ELSE b + Pow(bit)

\* the decoded envelope e with one bit of byte pos flipped, encoded again
Tampered(e, pos, bit) == b64enc([e EXCEPT ![pos] = FlipBit(e[pos], bit)])

\* the lengths of the plaintexts whose envelopes are tampered with: one
\* and two ciphertext blocks
TamperLens == {0, BlockSize}

InitTamper ==
  /\ password = << 112 >>
  /\ self = KeyDeriver(password)
  /\ plain \in { Fill(n, 65) : n \in TamperLens }
  /\ encs = << >>
  /\ perm = << >>
  /\ dec = IdleFrame
  /\ NetIdle

\* decrypt is called, as one step, on an envelope encrypt returned with one
\* bit flipped past its IV, that is in its ciphertext or its MAC
DecryptTampered ==
  /\ dec.pc = "idle"
  /\ \E k \in 1..Len(encs) :
       LET e == b64dec(encs[k].out).bytes
       IN  \E pos \in (BlockSize + 1)..Len(e), bit \in 0..7 :
             dec' = decrypt(self, Tampered(e, pos, bit),
                            [kind |-> "tamper", k |-> k, pos |-> pos, bit |-> bit])
  /\ UNCHANGED << password, self, plain, encs, perm, netVars >>

NextTamper == Encrypt \/ DecryptTampered \/ DecryptExit

SpecTamper == InitTamper /\ [][NextTamper]_vars

\* ---------------------------------------------------- arbitrary envelopes

MaxRawLen == 17

\* the lengths of what the forged ciphertexts decrypt to: every length up to
\* MaxRawLen, and two whole blocks
RawLens == (0..MaxRawLen) \cup {2 * BlockSize}

\* the last bytes tried: no padding, the smallest and the largest, the first
\* beyond a block, beyond the data, the largest byte
PadVals == {0, 1, 2, 16, 17, 18, 255}

\* n bytes all equal to c, but for byte k (if k > 0), which is 65
RawPlains ==
  UNION { { Bytes([i \in 1..n |-> IF i = k /\ i < n THEN 65 ELSE c]) :
              k \in 0..n, c \in PadVals } :
          n \in RawLens }

\* an envelope made by a holder of the keys around ciphertext that decrypts
\* to raw (any bytes when the length is no multiple of 16); goodMac says
\* whether its MAC is the right one
ForgedEnvelope(me, raw, iv, goodMac) ==
  LET ct == IF Len(raw) % BlockSize = 0 THEN CBCEncrypt(me.crypt, iv, raw) ELSE raw
      mac == HMAC(me.mac, ct)
  IN  b64enc(iv \o ct \o
             (IF goodMac THEN mac ELSE [mac EXCEPT ![1] = (@ + 1) % 256]))

\* what decrypt may be handed by a caller: forged envelopes, and byte
\* strings shorter than an envelope
Arguments(me) ==
  { ForgedEnvelope(me, raw, Fill(BlockSize, 9), g) : raw \in RawPlains, g \in BOOLEAN }
    \cup { b64enc(Fill(n, 7)) : n \in {0, 1, MinEnvelope - 1} }

\* decrypt is called on an argument of the caller's, and runs line by line
DecryptAny ==
  /\ dec.pc = "idle"
  /\ \E arg \in Arguments(self) :
       dec' = Enter(arg, [NoSrc EXCEPT !.kind = "any"])
  /\ UNCHANGED << password, self, plain, encs, perm, netVars >>

NextForge == DecryptAny \/ DecryptSteps

SpecForge == InitSession /\ [][NextForge]_vars

\* ------------------------------------------------------- authentication

MaxClock == 1

MaxAuths == 2

\* the values random.SystemRandom().getrandbits(20) is taken to return
RandomDraws == {0, 1048575}

\* "%d" % n, as character codes
RECURSIVE Decimal(_)
Decimal(n) ==
  IF n < 10 THEN << 48 + n >> ELSE Append(Decimal(n \div 10), 48 + (n % 10))

\* SchnorrSigner(key): public() and sign(t), of the nigori module; the
\* signature is opaque, a pair of byte strings fixed by the key and t
SchnorrPublic(key) == SHA256(<< 1 >> \o key)

SchnorrSign(key, msg) ==
  [e |-> SHA256(<< 2 >> \o key \o msg), s |-> SHA256(<< 3 >> \o key \o msg)]

\* the signing keys there are, each with the public key register posts
KeyPairs ==
  { [key |-> KeyDeriver(p).authenticate,
     public |-> b64enc(SchnorrPublic(KeyDeriver(p).authenticate))] : p \in Passwords }

\* makeAuthParams with t the seconds alone
makeAuthParams_NoNonce(user, pw, now, bits) ==
  LET tt == Decimal(now)
      sig == SchnorrSign(KeyDeriver(pw).authenticate, tt)
  IN  [user |-> user, t |-> tt, e |-> b64enc(sig.e), s |-> b64enc(sig.s)]

\* makeAuthParams, with now = int(time.time()) and bits the 20 random bits
makeAuthParams(user, pw, now, bits) ==
  LET tt == Decimal(now) \o << 58 >> \o Decimal(bits)
      sig == SchnorrSign(KeyDeriver(pw).authenticate, tt)
  IN  [user |-> user, t |-> tt, e |-> b64enc(sig.e), s |-> b64enc(sig.s)]

\* the server's verification of a signed request for a registered key
ServerVerify(pub, params) ==
  \E kp \in KeyPairs :
    /\ pub = kp.public
    /\ LET sig == SchnorrSign(kp.key, params.t)
       IN  params.e = b64enc(sig.e) /\ params.s = b64enc(sig.s)

\* the server's answer to a signed request: the signature must verify under
\* the user's registered key, and t must not have been accepted before
ServerCheck(params, reg, sn) ==
  IF reg[params.user] = NoKey \/ ~ServerVerify(reg[params.user], params)
    THEN "Unauthorized"
  ELSE IF params.t \in sn THEN "ReplayRejected"
  ELSE "OK"

\* the t values accepted so far, after a request answered with status
ServerSeen(status, params, sn) ==
  IF status = "OK" THEN sn \cup {params.t} ELSE sn

\* the clock moves on by a second
Tick ==
  /\ clock < MaxClock
  /\ clock' = clock + 1
  /\ UNCHANGED << password, self, cipherVars, registered, seen, store, auths, sent, out >>

\* register(user, password): the public key is posted; the server keeps the
\* first key registered for a user
Register ==
  /\ \E user \in Users :
       registered' =
         IF registered[user] # NoKey THEN registered
         ELSE [registered EXCEPT ![user] = b64enc(SchnorrPublic(self.authenticate))]
  /\ UNCHANGED << password, self, cipherVars, clock, seen, store, auths, sent, out >>

\* authenticate building new parameters for its second do_auth
Authenticate_NewParams ==
  /\ Len(auths) < MaxAuths
  /\ \E user \in Users, bits \in RandomDraws :
     \E bits2 \in RandomDraws \ {bits} :
     \E params \in { makeAuthParams(user, password, clock, bits) } :
     \E params2 \in { makeAuthParams(user, password, clock, bits2) } :
     \E first \in { ServerCheck(params, registered, seen) } :
     \E seen1 \in { ServerSeen(first, params, seen) } :
     \E second \in { ServerCheck(params2, registered, seen1) } :
       /\ auths' = Append(auths,
             [now |-> clock, bits |-> bits, known |-> registered[user] # NoKey,
              sent1 |-> params, first |-> first,
              sent2 |-> params2, second |-> second])
       /\ seen' = ServerSeen(second, params2, seen1)
  /\ UNCHANGED << password, self, cipherVars, clock, registered, store, sent, out >>

\* authenticate(user, password): one makeAuthParams, then do_auth on its
\* params twice
Authenticate ==
  /\ Len(auths) < MaxAuths
  /\ \E user \in Users, bits \in RandomDraws :
     \E params \in { makeAuthParams(user, password, clock, bits) } :
     \E first \in { ServerCheck(params, registered, seen) } :
     \E seen1 \in { ServerSeen(first, params, seen) } :
     \E second \in { ServerCheck(params, registered, seen1) } :
       /\ auths' = Append(auths,
             [now |-> clock, bits |-> bits, known |-> registered[user] # NoKey,
              sent1 |-> params, first |-> first,
              sent2 |-> params, second |-> second])
       /\ seen' = ServerSeen(second, params, seen1)
  /\ UNCHANGED << password, self, cipherVars, clock, registered, store, sent, out >>

NextAuth == Tick \/ Register \/ Authenticate

SpecAuth == InitSession /\ [][NextAuth]_vars

\* ------------------------------------------------------- stored resources

MaxRequests == 2

\* main passes type 1, initSplit type 2
Types == {1, 2}

\* "foo" and "bar"
Names == { << 102, 111, 111 >>, << 98, 97, 114 >> }

\* "v"
Values == { << 118 >> }

\* int2bin and concat of the nigori module: four bytes, big-endian; the
\* parts one after the other
int2bin(n) ==
  << (n \div 16777216) % 256, (n \div 65536) % 256, (n \div 256) % 256, n % 256 >>

concat(parts) == parts[1] \o parts[2]

\* the server's store with value appended under key
Stored(st, key, value) ==
  IF \E i \in 1..Len(st) : st[i].name = key
  THEN Bytes([i \in 1..Len(st) |->
                IF st[i].name = key
                THEN [st[i] EXCEPT !.values = Append(@, value)] ELSE st[i]])
  ELSE Append(st, [name |-> key, values |-> << value >>])

Records(st, key) ==
  IF \E i \in 1..Len(st) : st[i].name = key
  THEN st[CHOOSE i \in 1..Len(st) : st[i].name = key].values
  ELSE << >>

Requests == Cardinality(sent)

\* the user is registered under the session's password; nothing else yet
InitStore ==
  /\ password \in Passwords
  /\ self = KeyDeriver(password)
  /\ plain = << >>
  /\ encs = << >>
  /\ perm = << >>
  /\ dec = IdleFrame
  /\ clock = 0
  /\ registered = [u \in Users |-> b64enc(SchnorrPublic(self.authenticate))]
  /\ seen = {}
  /\ store = << >>
  /\ auths = << >>
  /\ sent = {}
  /\ out = << >>

\* add(user, password, type, name, value): the signed parameters, the
\* lookup key and the encrypted value are posted; the server stores the
\* value if it accepts the request
Add ==
  /\ Requests < MaxRequests
  /\ \E user \in Users, bits \in RandomDraws :
     \E params \in { makeAuthParams(user, password, clock, bits) } :
     \E status \in { ServerCheck(params, registered, seen) } :
     \E iv \in IVs, type \in Types, name \in Names, value \in Values :
     \E key \in { permute(self, concat(<< int2bin(type), name >>)) } :
       /\ sent' = sent \cup {[op |-> "add", n |-> Requests + 1,
                              type |-> type, name |-> name, key |-> key]}
       /\ seen' = ServerSeen(status, params, seen)
       /\ store' = IF status = "OK"
                   THEN Stored(store, key, encrypt(self, value, iv))
                   ELSE store
       /\ out' = << status >>
  /\ UNCHANGED << password, self, cipherVars, clock, registered, auths >>

\* getList(user, password, type, name): the signed parameters and the lookup
\* key are sent; anything but a 200 raises LookupError; each record's value
\* is decrypted and printed
GetList ==
  /\ Requests < MaxRequests
  /\ \E user \in Users, bits \in RandomDraws :
     \E params \in { makeAuthParams(user, password, clock, bits) } :
     \E status \in { ServerCheck(params, registered, seen) } :
     \E type \in Types, name \in Names :
     \E key \in { permute(self, concat(<< int2bin(type), name >>)) } :
     \E records \in { Records(store, key) } :
       /\ sent' = sent \cup {[op |-> "getList", n |-> Requests + 1,
                              type |-> type, name |-> name, key |-> key]}
       /\ seen' = ServerSeen(status, params, seen)
       /\ out' = IF status # "OK" THEN << "LookupError" >>
                 ELSE Bytes([i \in 1..Len(records) |->
                         LET f == decrypt(self, records[i], NoSrc)
                         IN  IF f.pc = "returned" THEN f.result ELSE f.error])
  /\ UNCHANGED << password, self, cipherVars, clock, registered, store, auths >>

NextStore == Add \/ GetList

SpecStore == InitStore /\ [][NextStore]_vars

\* ------------------------------------------------------------- properties

Range(s) == { s[i] : i \in 1..Len(s) }

\* C1: whatever IV encrypt drew, decrypt of what encrypt(plain) returned
\* ends by returning exactly plain (for every password and every plaintext,
\* the empty one and the block-aligned ones included)
RoundTrip ==
  (Ended(dec) /\ dec.src.kind = "enc") =>
    (dec.pc = "returned" /\ dec.result = plain)

RoundTripAligned ==
  /\ dec.pc = "returned"
  /\ dec.src.kind = "enc"
  /\ Len(plain) = BlockSize
  /\ encs[dec.src.k].iv # ZeroIV
  /\ dec.result = plain

\* C2: decrypt of an envelope of encrypt's with one bit of its ciphertext
\* or MAC changed ends with AuthenticationError, never with a plaintext
TamperDetected ==
  (Ended(dec) /\ dec.src.kind = "tamper") =>
    (dec.pc = "raised" /\ dec.error = AuthenticationError)

TamperedCiphertextRejected ==
  /\ dec.src.kind = "tamper"
  /\ dec.src.pos <= BlockSize + Len(dec.crypted)
  /\ dec.error = AuthenticationError

\* C7 as stated: two calls of encrypt(plain) never use the same IV and so
\* never return the same output
IVsNeverRepeat ==
  \A i, j \in 1..Len(encs) :
    i # j => (encs[i].iv # encs[j].iv /\ encs[i].out # encs[j].out)

\* C7 as amended: two calls of encrypt(plain) return the same output exactly
\* when they drew the same IV, and every output decrypts to plain
OutputsDifferWithIVs ==
  \A i, j \in 1..Len(encs) :
    /\ i # j => ((encs[i].out = encs[j].out) <=> (encs[i].iv = encs[j].iv))
    /\ LET f == decrypt(self, encs[i].out, NoSrc)
       IN  f.pc = "returned" /\ f.result = plain

TwoFreshIVs ==
  /\ Len(encs) >= 2
  /\ encs[1].iv # encs[2].iv
  /\ encs[1].out # encs[2].out

\* C9 as stated: permute(plain) is what encrypt(plain) returns when its IV
\* is the zero block
PermuteIsZeroIVEncrypt ==
  \A k \in 1..Len(encs) :
    (perm # << >> /\ encs[k].iv = ZeroIV) => perm = encs[k].out

\* C9 as amended: permute(plain) encodes the zero-IV envelope without its
\* leading IV block: ciphertext and MAC only, 16 bytes fewer
PermuteIsZeroIVEnvelopeSansIV ==
  \A k \in 1..Len(encs) :
    (perm # << >> /\ encs[k].iv = ZeroIV) =>
      LET e == b64dec(encs[k].out).bytes
          q == b64dec(perm)
      IN  /\ q.ok
          /\ q.bytes = SubSeq(e, BlockSize + 1, Len(e))
          /\ Len(q.bytes) = Len(e) - BlockSize

PermuteBesideZeroIVEncrypt ==
  /\ perm # << >>
  /\ \E k \in 1..Len(encs) : encs[k].iv = ZeroIV

\* the padding the spec's decrypt accepts: a last byte c in 1..16 and the
\* last c bytes all equal to c
WellPadded(p) ==
  /\ Len(p) > 0
  /\ p[Len(p)] \in 1..BlockSize
  /\ p[Len(p)] <= Len(p)
  /\ \A k \in 1..p[Len(p)] : p[Len(p) + 1 - k] = p[Len(p)]

\* C3: once the MAC check has passed and there are decrypted bytes, with c
\* the last of them, decrypt ends with PaddingError unless they are well
\* padded, and returns them without their last c bytes when they are
PaddingValidated ==
  (Ended(dec) /\ "padding" \in Range(dec.steps) /\ dec.plain # << >>) =>
    IF WellPadded(dec.plain)
    THEN /\ dec.pc = "returned"
         /\ dec.result = Slice(dec.plain, 1, Len(dec.plain) - dec.plain[Len(dec.plain)])
    ELSE dec.pc = "raised" /\ dec.error = PaddingError

\* C4: the cipher runs and padding is looked at only after the length check
\* and a matching MAC, in that order; a call that ends with
\* AuthenticationError has decrypted nothing and inspected no padding
VerifyThenDecrypt ==
  /\ ("aes" \in Range(dec.steps) \/ "padding" \in Range(dec.steps)
        \/ dec.plain # << >> \/ dec.pc \in {"l56", "l58", "returned"}) =>
       /\ Len(dec.steps) >= 2
       /\ SubSeq(dec.steps, 1, 2) = << "length", "hmac" >>
       /\ Len(b64dec(dec.arg).bytes) >= MinEnvelope
       /\ dec.mac = HMAC(self.mac, dec.crypted)
  /\ dec.error = AuthenticationError =>
       /\ dec.steps = << "length", "hmac" >>
       /\ dec.mac # HMAC(self.mac, dec.crypted)
       /\ dec.plain = << >>

MacMismatchEndsEarly ==
  /\ dec.src.kind = "any"
  /\ dec.pc = "raised"
  /\ dec.error = AuthenticationError
  /\ Len(dec.crypted) = BlockSize

CipherRanAfterMac ==
  /\ dec.src.kind = "any"
  /\ dec.pc = "l58"

\* C10: a call of decrypt returns or ends with FormatError,
\* AuthenticationError or PaddingError, and with nothing else
ClosedTaxonomy ==
  Ended(dec) =>
    (dec.pc = "returned"
       \/ dec.error \in {FormatError, AuthenticationError, PaddingError})

ChallengesAllDiffer ==
  \A i, j \in 1..Len(auths) :
    i # j => auths[i].sent1.t # auths[j].sent1.t

\* C6 as amended: two calls of makeAuthParams with the same user and password
\* have the same t exactly when they fall in the same clock second and draw
\* the same 20 random bits; either way each is signed under the user's key
ChallengesDifferWithDraws ==
  \A i, j \in 1..Len(auths) :
    /\ (auths[i].sent1.t = auths[j].sent1.t)
          <=> (auths[i].now = auths[j].now /\ auths[i].bits = auths[j].bits)
    /\ ServerVerify(b64enc(SchnorrPublic(self.authenticate)), auths[i].sent1)

SameSecondOtherDraw ==
  \E i, j \in 1..Len(auths) :
    /\ auths[i].now = auths[j].now
    /\ auths[i].bits # auths[j].bits
    /\ auths[i].sent1.t # auths[j].sent1.t

\* C8: the lookup key add and getList send is permute(int2bin(type) || name);
\* requests for the same (type, name) send the same key, whichever operation
\* sends it and whatever else it draws, and requests for tuples that differ
\* in type or in name send different keys
LookupKeyStable ==
  \A a, b \in sent :
    /\ a.key = permute(self, concat(<< int2bin(a.type), a.name >>))
    /\ (a.key = b.key) <=> (a.type = b.type /\ a.name = b.name)

SameKeyFromAddAndGetList ==
  \E a, b \in sent :
    /\ a.op = "add"
    /\ b.op = "getList"
    /\ a.type = b.type
    /\ a.name = b.name
    /\ a.key = b.key
====
